---- MODULE Spec2Model ----
(***************************************************************************)
(* Hangman (src/hangman_rust/src/main.rs): the main loop, the word-list    *)
(* choice, the word selection and the round played by play_hangman_round.  *)
(*                                                                         *)
(* A char is its Unicode code point; a string (&str, String, Vec<char>) is *)
(* a sequence of chars.  The conversions of the source (trim, len,         *)
(* to_uppercase, to_ascii_uppercase, is_ascii_alphabetic, sort_unstable)   *)
(* are computed on code points as the standard library computes them.      *)
(*                                                                         *)
(* One action is one read_line of the program together with everything the *)
(* program does until it blocks on the next read_line or exits.            *)
(***************************************************************************)
EXTENDS Integers, Sequences, FiniteSets, TLC

VARIABLES
    all_words,              \* main: the Root loaded from the JSON file
    pc,                     \* the read_line the program is blocked on, "exit"
                            \* or "panic"
    secret_word_str,        \* play_hangman_round: the argument
    secret_word_chars,      \* play_hangman_round: the upper-cased chars
    hidden_word_display,    \* play_hangman_round: the displayed word
    guessed_letters,        \* play_hangman_round: the letters guessed
    wrong_guesses_count,    \* play_hangman_round: the u8 counter
    remaining_guesses,      \* display_game_state: the last count displayed
    player_won,             \* main: what play_hangman_round returned
    output                  \* the last message printed about an input

vars == <<all_words, pc, secret_word_str, secret_word_chars, hidden_word_display,
          guessed_letters, wrong_guesses_count, remaining_guesses, player_won,
          output>>

round_vars == <<secret_word_str, secret_word_chars, hidden_word_display,
                guessed_letters, wrong_guesses_count, remaining_guesses,
                player_won>>

-----------------------------------------------------------------------------
(* Program constants *)

MAX_WRONG_GUESSES == 6

\* '_' : the char hidden_word_display is filled with
UNDERSCORE == 95

\* u8 arithmetic wraps at 2^8 (a debug build panics instead; no reachable
\* state of the program overflows)
U8 == 256

-----------------------------------------------------------------------------
(* Bounds of the model *)

\* the longest word of the JSON file
MaxWordLen == 2

\* the longest line typed at a prompt (chars before the newline)
MaxInputLen == 2

-----------------------------------------------------------------------------
(* chars and strings *)

\* char::to_ascii_uppercase
to_ascii_uppercase_id(c) == c

to_ascii_uppercase(c) == IF c \in 97..122 THEN c - 32 ELSE c

\* char::is_ascii_alphabetic
is_ascii_alphabetic(c) == c \in 65..90 \/ c \in 97..122

\* char::to_uppercase, on the chars of the model: ASCII letters, and U+00DF
\* (sharp s), whose upper case is the two chars "SS"
char_to_uppercase(c) ==
    IF c \in 97..122 THEN <<c - 32>>
    ELSE IF c = 223 THEN <<83, 83>>
    ELSE <<c>>

\* char::is_whitespace (White_Space), on the chars below U+0100
is_whitespace(c) == c \in {9, 10, 11, 12, 13, 32, 133, 160}

\* char::len_utf8
len_utf8(c) ==
    IF c < 128 THEN 1 ELSE IF c < 2048 THEN 2 ELSE IF c < 65536 THEN 3 ELSE 4

\* str::len : the length in bytes
RECURSIVE str_len(_)
str_len(s) == IF s = <<>> THEN 0 ELSE len_utf8(Head(s)) + str_len(Tail(s))

RECURSIVE trim_start(_)
trim_start(s) ==
    IF s # <<>> /\ is_whitespace(Head(s)) THEN trim_start(Tail(s)) ELSE s

RECURSIVE trim_end(_)
trim_end(s) ==
    IF s # <<>> /\ is_whitespace(s[Len(s)])
    THEN trim_end(SubSeq(s, 1, Len(s) - 1))
    ELSE s

\* str::trim
trim(s) == trim_end(trim_start(s))

\* str::to_uppercase followed by chars().collect()
RECURSIVE to_uppercase(_)
to_uppercase(s) ==
    IF s = <<>> THEN <<>> ELSE char_to_uppercase(Head(s)) \o to_uppercase(Tail(s))

\* str::eq_ignore_ascii_case
eq_ignore_ascii_case(s, t) ==
    /\ Len(s) = Len(t)
    /\ \A i \in 1..Len(s) : to_ascii_uppercase(s[i]) = to_ascii_uppercase(t[i])

\* slice::contains
contains(s, c) == \E i \in 1..Len(s) : s[i] = c

\* the place of x in a sorted sequence
RECURSIVE insert_sorted(_, _)
insert_sorted(s, x) ==
    IF s = <<>> THEN <<x>>
    ELSE IF x <= Head(s) THEN <<x>> \o s
    ELSE <<Head(s)>> \o insert_sorted(Tail(s), x)

\* slice::sort_unstable on chars: ascending code points
sort_unstable_id(s) == s

RECURSIVE sort_unstable(_)
sort_unstable(s) ==
    IF s = <<>> THEN <<>> ELSE insert_sorted(sort_unstable(Tail(s)), Head(s))

\* all strings over S of at most n chars
Strings(S, n) == UNION {[1..k -> S] : k \in 0..n}

RECURSIVE SetToSeq(_)
SetToSeq(S) ==
    IF S = {} THEN <<>>
    ELSE LET x == CHOOSE y \in S : TRUE IN <<x>> \o SetToSeq(S \ {x})

-----------------------------------------------------------------------------
(* The inputs of the model *)

\* chars of the words of the JSON file: a, '-', sharp s
WordChars == {97, 45, 223}

Words == Strings(WordChars, MaxWordLen)

Categories == {"four_letter_words", "five_letter_words", "six_letter_words"}

\* the words a list of the JSON file may hold: the words made of ASCII
\* letters in the first list, the other words in the second, none in the third
ListWords(category) ==
    IF category = "four_letter_words"
    THEN {w \in Words : w # <<>> /\ \A i \in 1..Len(w) : is_ascii_alphabetic(w[i])}
    ELSE IF category = "five_letter_words"
    THEN {w \in Words : w = <<>> \/ \E i \in 1..Len(w) : ~is_ascii_alphabetic(w[i])}
    ELSE {}

\* the JSON files of the model: the one whose lists hold all their words, and
\* the one whose lists are all empty
WordFiles ==
    {[c \in Categories |-> IF c \in E THEN <<>> ELSE SetToSeq(ListWords(c))] :
        E \in {{}, Categories}}

\* chars typed alone at the guess prompt: A..G and S, a, '5', ' ',
\* sharp s (two bytes in UTF-8)
GuessChars == (65..71) \cup {83, 97, 53, 32, 223}

\* chars typed in longer lines: ' ' and a
TypedChars == {32, 97}

GuessInputs == Strings(GuessChars, 1) \cup Strings(TypedChars, MaxInputLen)

\* lines typed at the word-list prompt: "", "1", "2", "3", "q", "Q", "5",
\* and lines over ' ' and '1'
ChoiceInputs == Strings({49, 50, 51, 113, 81, 53}, 1) \cup Strings({32, 49}, MaxInputLen)

\* lines typed at the replay prompt: "yes", "YES", "Yes", " yes", "no", "y", ""
ReplayInputs == {<<121, 101, 115>>, <<89, 69, 83>>, <<89, 101, 115>>,
                 <<32, 121, 101, 115>>, <<110, 111>>, <<121>>, <<>>}

-----------------------------------------------------------------------------
(* play_hangman_round *)

\* line 119: MAX_WRONG_GUESSES - wrong_guesses_count, in u8
RemainingGuesses(wrong) == (MAX_WRONG_GUESSES - wrong) % U8

\* line 123: the loss test
IsGameOver_gt(wrong) == wrong > MAX_WRONG_GUESSES

IsGameOver(wrong) == wrong >= MAX_WRONG_GUESSES

\* line 130: the win test
IsWin_any(hidden) == \E i \in 1..Len(hidden) : hidden[i] # UNDERSCORE

IsWin(hidden) == \A i \in 1..Len(hidden) : hidden[i] # UNDERSCORE

\* lines 122-134: where the loop goes after display_game_state
LoopTop_noreturn(wrong, hidden) ==
    IF IsGameOver(wrong) THEN "lost" ELSE "prompt"

LoopTop_inverted(wrong, hidden) ==
    IF IsGameOver(wrong) THEN "won"
    ELSE IF IsWin(hidden) THEN "lost"
    ELSE "prompt"

LoopTop(wrong, hidden) ==
    IF IsGameOver(wrong) THEN "lost"
    ELSE IF IsWin(hidden) THEN "won"
    ELSE "prompt"

\* lines 174-180: found_in_word
FoundInWord_first(chars, c) == chars # <<>> /\ chars[1] = c

FoundInWord(chars, c) == \E i \in 1..Len(chars) : chars[i] = c

\* lines 175-180: the display after the scan of the secret word
RevealFirst(hidden, chars, c) ==
    [i \in 1..Len(hidden) |->
        IF i \in 1..Len(chars) /\ chars[i] = c
           /\ \A j \in 1..(i - 1) : chars[j] # c
        THEN c ELSE hidden[i]]

Reveal_only(hidden, chars, c) ==
    [i \in 1..Len(hidden) |->
        IF i \in 1..Len(chars) /\ chars[i] = c THEN c ELSE UNDERSCORE]

Reveal(hidden, chars, c) ==
    [i \in 1..Len(hidden) |->
        IF i \in 1..Len(chars) /\ chars[i] = c THEN c ELSE hidden[i]]

\* lines 183-188: the counter after the guess
CountWrong_always(wrong, found) == (wrong + 1) % U8

CountWrong(wrong, found) == IF found THEN wrong ELSE (wrong + 1) % U8

\* lines 147-167: a `continue` leaves the locals as they are
Rejected_penalty(msg, guessed, hidden, wrong) ==
    [msg |-> msg, guessed |-> guessed, hidden |-> hidden,
     wrong |-> IF msg = "already_guessed" THEN (wrong + 1) % U8 ELSE wrong]

Rejected(msg, guessed, hidden, wrong) ==
    [msg |-> msg, guessed |-> guessed, hidden |-> hidden, wrong |-> wrong]

\* lines 169-188: a new valid guess
Applied(guessed_char, guessed, hidden, wrong, chars) ==
    LET found_in_word == FoundInWord(chars, guessed_char) IN
    [msg     |-> IF found_in_word THEN "good_guess" ELSE "lose_a_guess",
     guessed |-> sort_unstable(Append(guessed, guessed_char)),
     hidden  |-> Reveal(hidden, chars, guessed_char),
     wrong   |-> CountWrong(wrong, found_in_word)]

\* lines 144-188: one line read at the guess prompt
ProcessGuess(line, guessed, hidden, wrong, chars) ==
    LET guess_input == trim(line) IN
    IF str_len(guess_input) # 1
    THEN Rejected("invalid_length", guessed, hidden, wrong)
    ELSE LET guessed_char == to_ascii_uppercase(Head(guess_input)) IN
         IF ~is_ascii_alphabetic(guessed_char)
         THEN Rejected("invalid_alphabetic", guessed, hidden, wrong)
         ELSE IF contains(guessed, guessed_char)
         THEN Rejected("already_guessed", guessed, hidden, wrong)
         ELSE Applied(guessed_char, guessed, hidden, wrong, chars)

\* lines 114-134: display_game_state and the two tests, until the next
\* read_line or the return
EnterLoop(wrong, hidden) ==
    /\ remaining_guesses' = RemainingGuesses(wrong)
    /\ LET to == LoopTop(wrong, hidden) IN
       /\ pc' = IF to = "prompt" THEN "guess" ELSE "replay"
       /\ player_won' = IF to = "prompt" THEN "none"
                        ELSE IF to = "won" THEN "true" ELSE "false"

\* lines 100-112, then the loop
StartRound(word) ==
    LET chars == to_uppercase(word) IN
    /\ secret_word_str' = word
    /\ secret_word_chars' = chars
    /\ hidden_word_display' = [i \in 1..Len(chars) |-> UNDERSCORE]
    /\ guessed_letters' = <<>>
    /\ wrong_guesses_count' = 0
    /\ EnterLoop(0, [i \in 1..Len(chars) |-> UNDERSCORE])

\* lines 140-189, then the loop
SubmitGuess(line) ==
    /\ pc = "guess"
    /\ LET r == ProcessGuess(line, guessed_letters, hidden_word_display,
                             wrong_guesses_count, secret_word_chars) IN
       /\ output' = r.msg
       /\ guessed_letters' = r.guessed
       /\ hidden_word_display' = r.hidden
       /\ wrong_guesses_count' = r.wrong
       /\ EnterLoop(r.wrong, r.hidden)
    /\ UNCHANGED <<all_words, secret_word_str, secret_word_chars>>

-----------------------------------------------------------------------------
(* get_word_list_choice and main *)

\* lines 56-59
ChosenList(choice) ==
    IF choice = <<49>> THEN all_words["four_letter_words"]
    ELSE IF choice = <<50>> THEN all_words["five_letter_words"]
    ELSE all_words["six_letter_words"]

IsListChoice(choice) == choice \in {<<49>>, <<50>>, <<51>>}

\* lines 52-54, 207-211: 'q' quits
Quit(line) ==
    /\ pc = "choose"
    /\ eq_ignore_ascii_case(trim(line), <<113>>)
    /\ pc' = "exit"
    /\ output' = "goodbye"
    /\ UNCHANGED <<all_words, round_vars>>

\* lines 60-63: any other line is asked again
InvalidChoice(line) ==
    /\ pc = "choose"
    /\ ~eq_ignore_ascii_case(trim(line), <<113>>)
    /\ ~IsListChoice(trim(line))
    /\ output' = "invalid_choice"
    /\ UNCHANGED <<all_words, pc, round_vars>>

\* line 214: Vec::is_empty
is_empty_never(word_list) == FALSE

is_empty(word_list) == Len(word_list) = 0

\* lines 214-217: an empty list is asked again
EmptyList(line) ==
    /\ pc = "choose"
    /\ IsListChoice(trim(line))
    /\ is_empty(ChosenList(trim(line)))
    /\ output' = "empty_list"
    /\ UNCHANGED <<all_words, pc, round_vars>>

\* lines 71-76: any element of the list
select_random_word(word_list) == {word_list[i] : i \in 1..Len(word_list)}

\* lines 219-222: a word of the list, and the round up to its first prompt;
\* choose() of an empty list is None and the expect of line 75 panics
PlayRound(line) ==
    /\ pc = "choose"
    /\ IsListChoice(trim(line))
    /\ ~is_empty(ChosenList(trim(line)))
    /\ IF select_random_word(ChosenList(trim(line))) = {}
       THEN /\ pc' = "panic"
            /\ output' = "panic"
            /\ UNCHANGED round_vars
       ELSE /\ \E word \in select_random_word(ChosenList(trim(line))) :
                  StartRound(word)
            /\ output' = "round_started"
    /\ UNCHANGED all_words

\* lines 225-234: "yes" plays again
PlayAgain(line) ==
    /\ pc = "replay"
    /\ eq_ignore_ascii_case(trim(line), <<121, 101, 115>>)
    /\ pc' = "choose"
    /\ output' = "again"
    /\ UNCHANGED <<all_words, round_vars>>

StopPlaying(line) ==
    /\ pc = "replay"
    /\ ~eq_ignore_ascii_case(trim(line), <<121, 101, 115>>)
    /\ pc' = "exit"
    /\ output' = "thanks"
    /\ UNCHANGED <<all_words, round_vars>>

-----------------------------------------------------------------------------

\* lines 194-202: the words are loaded and the first prompt is shown
Init ==
    /\ all_words \in WordFiles
    /\ pc = "choose"
    /\ secret_word_str = <<>>
    /\ secret_word_chars = <<>>
    /\ hidden_word_display = <<>>
    /\ guessed_letters = <<>>
    /\ wrong_guesses_count = 0
    /\ remaining_guesses = MAX_WRONG_GUESSES
    /\ player_won = "none"
    /\ output = "loaded"

Next ==
    \/ \E line \in ChoiceInputs : Quit(line)
    \/ \E line \in ChoiceInputs : InvalidChoice(line)
    \/ \E line \in ChoiceInputs : EmptyList(line)
    \/ \E line \in ChoiceInputs : PlayRound(line)
    \/ \E line \in GuessInputs : SubmitGuess(line)
    \/ \E line \in ReplayInputs : PlayAgain(line)
    \/ \E line \in ReplayInputs : StopPlaying(line)

Spec == Init /\ [][Next]_vars

-----------------------------------------------------------------------------
(* Notions of the specification *)

\* char::is_alphabetic, on the chars of the model
is_alphabetic(c) == is_ascii_alphabetic(c) \/ c = 223

\* a valid secret word: not empty, alphabetic chars only
ValidWord(w) == w # <<>> /\ \A i \in 1..Len(w) : is_alphabetic(w[i])

\* a round is being played, or has just returned to main
InRound == pc \in {"guess", "replay"}

\* the outcome of the round: InProgress while the round waits for a guess,
\* then what play_hangman_round returned
Outcome ==
    IF pc = "guess" THEN "InProgress"
    ELSE IF player_won = "true" THEN "Won"
    ELSE IF player_won = "false" THEN "Lost"
    ELSE "None"

NoPlaceholder ==
    \A i \in DOMAIN hidden_word_display : hidden_word_display[i] # UNDERSCORE

Rejections == {"invalid_length", "invalid_alphabetic", "already_guessed"}

Acceptances == {"good_guess", "lose_a_guess"}

\* the result of a line typed in the current state
Guess(line) ==
    ProcessGuess(line, guessed_letters, hidden_word_display,
                 wrong_guesses_count, secret_word_chars)

-----------------------------------------------------------------------------
(* C1 *)

\* C1: in every state of a round with a valid secret word the outcome is Won
\* exactly when the display has no placeholder, Lost exactly when the wrong
\* count equals MAX_WRONG_GUESSES and the outcome is not Won, and InProgress
\* otherwise.
C1_OutcomeIsDerived ==
    (InRound /\ ValidWord(secret_word_str)) =>
        /\ (Outcome = "Won") <=> NoPlaceholder
        /\ (Outcome = "Lost") <=>
               (wrong_guesses_count = MAX_WRONG_GUESSES /\ Outcome # "Won")
        /\ (Outcome = "InProgress") <=>
               (~NoPlaceholder /\ wrong_guesses_count # MAX_WRONG_GUESSES)

\* a lost round of a valid word with a revealed letter
C1_Witness ==
    /\ pc = "replay"
    /\ ValidWord(secret_word_str)
    /\ Outcome = "Lost"
    /\ wrong_guesses_count = MAX_WRONG_GUESSES
    /\ \E i \in DOMAIN hidden_word_display : hidden_word_display[i] # UNDERSCORE

-----------------------------------------------------------------------------
(* C2 *)

\* the round is over: it returned, or its state is that of a won or lost round
RoundOver ==
    \/ Outcome \in {"Won", "Lost"}
    \/ NoPlaceholder
    \/ wrong_guesses_count >= MAX_WRONG_GUESSES

\* C2: once a round is Won or Lost no further guess is accepted, and the
\* display, the guessed letters and the wrong count of that round never change.
C2_OutcomesAreSticky ==
    [][(InRound /\ RoundOver) =>
          /\ UNCHANGED <<hidden_word_display, guessed_letters, wrong_guesses_count>>
          /\ output' \notin Acceptances
          /\ pc' # "guess"]_vars

\* a lost round, a letter of the word still hidden, and main has gone on
C2_Witness ==
    /\ pc \in {"choose", "exit"}
    /\ output \in {"again", "thanks"}
    /\ player_won = "false"
    /\ wrong_guesses_count = MAX_WRONG_GUESSES
    /\ \E i \in DOMAIN hidden_word_display :
          /\ hidden_word_display[i] = UNDERSCORE
          /\ is_ascii_alphabetic(secret_word_chars[i])

-----------------------------------------------------------------------------
(* C3 *)

C3_Bounded ==
    /\ wrong_guesses_count \in 0..MAX_WRONG_GUESSES
    /\ remaining_guesses = MAX_WRONG_GUESSES - wrong_guesses_count

\* C3: the wrong count never decreases during a round and stays within
\* 0..MAX_WRONG_GUESSES, so the count displayed, MAX_WRONG_GUESSES minus the
\* wrong count, is computed without underflow.
C3_WrongCountBounded ==
    /\ []C3_Bounded
    /\ [][pc = "guess" => wrong_guesses_count' >= wrong_guesses_count]_vars

\* the last wrong guess has been counted and 0 displayed
C3_Witness ==
    /\ wrong_guesses_count = MAX_WRONG_GUESSES
    /\ remaining_guesses = 0
    /\ output = "lose_a_guess"

-----------------------------------------------------------------------------
(* C4 *)

\* C4: slot i of the display shows the secret char at i if that char has been
\* guessed and the placeholder otherwise; a won round displays the secret word.
C4_MaskIsGuessedLetters ==
    /\ Len(hidden_word_display) = Len(secret_word_chars)
    /\ \A i \in 1..Len(secret_word_chars) :
          hidden_word_display[i] =
              IF \E k \in 1..Len(guessed_letters) :
                    guessed_letters[k] = secret_word_chars[i]
              THEN secret_word_chars[i]
              ELSE UNDERSCORE
    /\ Outcome = "Won" => hidden_word_display = secret_word_chars

\* one guess has revealed a letter at two places
C4_Witness ==
    /\ output = "good_guess"
    /\ Len(guessed_letters) = 1
    /\ \E i, j \in 1..Len(hidden_word_display) :
          /\ i # j
          /\ hidden_word_display[i] = guessed_letters[1]
          /\ hidden_word_display[j] = guessed_letters[1]

-----------------------------------------------------------------------------
(* C5 *)

\* C5: a rejected guess (wrong length, not alphabetic, already guessed) leaves
\* the wrong count, the guessed letters and the display as they were.
C5_RejectionChangesNothing ==
    [][(pc = "guess" /\ output' \in Rejections) =>
          UNCHANGED <<wrong_guesses_count, guessed_letters, hidden_word_display>>]_vars

\* a duplicate has been rejected after a wrong and a right guess
C5_Witness ==
    /\ pc = "guess"
    /\ output = "already_guessed"
    /\ wrong_guesses_count >= 1
    /\ \E i \in DOMAIN hidden_word_display : hidden_word_display[i] # UNDERSCORE

-----------------------------------------------------------------------------
(* C6 *)

\* what the order length, alphabetic, duplicate reports for a line
FirstFailingCheck(line) ==
    LET t == trim(line) IN
    IF Len(t) # 1 THEN "invalid_length"
    ELSE IF ~is_ascii_alphabetic(t[1]) THEN "invalid_alphabetic"
    ELSE IF \E k \in 1..Len(guessed_letters) :
               guessed_letters[k] = to_ascii_uppercase(t[1])
    THEN "already_guessed"
    ELSE "applied"

\* C6: a guess is checked for length (exactly one char after trimming), then
\* alphabetic, then duplicate; the rejection reported is that of the first
\* check that fails, and the guess is applied only when all pass.
C6_FirstFailingCheckReported ==
    pc = "guess" =>
        \A line \in GuessInputs :
            LET reported == Guess(line).msg IN
            IF reported \in Acceptances
            THEN FirstFailingCheck(line) = "applied"
            ELSE FirstFailingCheck(line) = reported

-----------------------------------------------------------------------------
(* C7 *)

\* C7: no round is played with a secret word that is empty or holds a char
\* that is not alphabetic.
C7_InvalidWordRefused == InRound => ValidWord(secret_word_str)

-----------------------------------------------------------------------------
(* C8 *)

\* the result of a line typed after the accepted result r
GuessAfter(line, r) ==
    ProcessGuess(line, r.guessed, r.hidden, r.wrong, secret_word_chars)

\* C8: a letter typed in lower case and in upper case has the same effect, and
\* once either is accepted the other is rejected as a duplicate, the wrong
\* count unchanged.
C8_CaseInsensitive ==
    pc = "guess" =>
        \A u \in 65..90 :
            LET upper == Guess(<<u>>)
                lower == Guess(<<u + 32>>)
            IN /\ upper = lower
               /\ upper.msg \in Acceptances =>
                     /\ GuessAfter(<<u + 32>>, upper) =
                            [upper EXCEPT !.msg = "already_guessed"]
                     /\ GuessAfter(<<u>>, lower) =
                            [lower EXCEPT !.msg = "already_guessed"]

\* A has been accepted and revealed, and both a and A are now duplicates
C8_Witness ==
    /\ pc = "guess"
    /\ output = "already_guessed"
    /\ \E i \in DOMAIN hidden_word_display : hidden_word_display[i] = 65
    /\ Guess(<<97>>).msg = "already_guessed"
    /\ Guess(<<65>>).msg = "already_guessed"

-----------------------------------------------------------------------------
(* C9 *)

\* the letter a step has added to the guessed letters
NewLetter(before, after) ==
    CHOOSE c \in {after[k] : k \in 1..Len(after)} :
        \A k \in 1..Len(before) : before[k] # c

\* C9: an accepted guess of a letter of the secret word is reported correct,
\* leaves the wrong count and reveals a slot; an accepted guess of another
\* letter is reported incorrect, adds 1 to the wrong count and leaves the display.
C9_AcceptedGuessEffect ==
    [][(pc = "guess" /\ guessed_letters' # guessed_letters) =>
          /\ Len(guessed_letters') = Len(guessed_letters) + 1
          /\ LET c == NewLetter(guessed_letters, guessed_letters') IN
             IF \E i \in 1..Len(secret_word_chars) : secret_word_chars[i] = c
             THEN /\ output' = "good_guess"
                  /\ wrong_guesses_count' = wrong_guesses_count
                  /\ \E i \in 1..Len(hidden_word_display) :
                        /\ hidden_word_display[i] = UNDERSCORE
                        /\ hidden_word_display'[i] = c
             ELSE /\ output' = "lose_a_guess"
                  /\ wrong_guesses_count' = wrong_guesses_count + 1
                  /\ hidden_word_display' = hidden_word_display]_vars

\* a right guess made after a wrong one
C9_Witness ==
    /\ output = "good_guess"
    /\ wrong_guesses_count >= 1
    /\ pc = "guess"

-----------------------------------------------------------------------------
(* C10 *)

\* C10: the guessed letters hold no char twice, hold upper-case ASCII letters
\* only, and are in ascending order.
C10_GuessedLettersSorted ==
    /\ \A k \in 1..Len(guessed_letters) : guessed_letters[k] \in 65..90
    /\ \A k \in 1..(Len(guessed_letters) - 1) :
          guessed_letters[k] < guessed_letters[k + 1]

\* three letters have been guessed, A among them
C10_Witness ==
    /\ Len(guessed_letters) >= 3
    /\ guessed_letters[1] = 65
    /\ output \in Acceptances

-----------------------------------------------------------------------------
(* C11 *)

\* C11: a slot of the display that is revealed stays revealed, with the same
\* char, in every later state of the round.
C11_RevealIsMonotonic ==
    [][InRound =>
          /\ Len(hidden_word_display') = Len(hidden_word_display)
          /\ \A i \in 1..Len(hidden_word_display) :
                hidden_word_display[i] # UNDERSCORE =>
                    hidden_word_display'[i] = hidden_word_display[i]]_vars

\* two different letters have been revealed, by two guesses
C11_Witness ==
    /\ InRound
    /\ \E i, j \in 1..Len(hidden_word_display) :
          /\ hidden_word_display[i] # UNDERSCORE
          /\ hidden_word_display[j] # UNDERSCORE
          /\ hidden_word_display[i] # hidden_word_display[j]

-----------------------------------------------------------------------------
(* C12 *)

\* C12: for every valid secret word W the display has as many slots as W has
\* chars, in every state of the round.
C12_MaskLengthIsWordLength ==
    (InRound /\ ValidWord(secret_word_str)) =>
        Len(hidden_word_display) = Len(secret_word_str)

-----------------------------------------------------------------------------
(* C13 *)

\* C13: every round, the first and every later one, starts InProgress with a
\* display of placeholders only, no guessed letter and a wrong count of 0.
C13_RoundStartsFresh ==
    output = "round_started" =>
        /\ Outcome = "InProgress"
        /\ Len(hidden_word_display) = Len(secret_word_chars)
        /\ \A i \in 1..Len(hidden_word_display) :
              hidden_word_display[i] = UNDERSCORE
        /\ guessed_letters = <<>>
        /\ wrong_guesses_count = 0

-----------------------------------------------------------------------------
(* C14 *)

\* C14: main never selects a word from an empty list nor plays a round for
\* it: an empty list leads back to the word-list prompt, and the panic of
\* select_random_word is never reached.
C14_EmptyListNeverPlayed ==
    /\ pc # "panic"
    /\ output = "empty_list" => pc = "choose"
    /\ InRound =>
          \E c \in Categories : \E k \in 1..Len(all_words[c]) :
              all_words[c][k] = secret_word_str

\* an empty list has been chosen after a round, in a file with a list of words
C14_Witness ==
    /\ output = "empty_list"
    /\ pc = "choose"
    /\ player_won # "none"
    /\ \E c \in Categories : all_words[c] # <<>>

-----------------------------------------------------------------------------
(* C15 *)

\* C15: play_hangman_round returns true exactly when the round ends with no
\* placeholder in the display, false exactly when it ends with the wrong count
\* at MAX_WRONG_GUESSES, and does not return while neither holds.
C15_ReturnValue ==
    /\ pc = "replay" =>
          /\ player_won \in {"true", "false"}
          /\ (player_won = "true") <=> NoPlaceholder
          /\ (player_won = "false") <=> (wrong_guesses_count = MAX_WRONG_GUESSES)
    /\ pc = "guess" =>
          /\ player_won = "none"
          /\ ~NoPlaceholder
          /\ wrong_guesses_count < MAX_WRONG_GUESSES

\* a round of a word of two slots has returned true after a wrong guess
C15_Witness ==
    /\ pc = "replay"
    /\ player_won = "true"
    /\ wrong_guesses_count >= 1
    /\ Len(hidden_word_display) >= 2

-----------------------------------------------------------------------------
(* C16 *)

\* the order of the specification: the win test, then the loss test
WinThenLoss(wrong, hidden) ==
    IF \A i \in 1..Len(hidden) : hidden[i] # UNDERSCORE THEN "won"
    ELSE IF wrong >= MAX_WRONG_GUESSES THEN "lost"
    ELSE "prompt"

\* C16: with a valid secret word no state has both a display without
\* placeholder and a wrong count of MAX_WRONG_GUESSES, so the loss test before
\* the win test gives the outcome the win test before the loss test gives.
C16_TestOrderIrrelevant ==
    (InRound /\ ValidWord(secret_word_str)) =>
        /\ ~(NoPlaceholder /\ wrong_guesses_count = MAX_WRONG_GUESSES)
        /\ LoopTop(wrong_guesses_count, hidden_word_display) =
               WinThenLoss(wrong_guesses_count, hidden_word_display)

\* a valid word won with one wrong guess left
C16_Witness ==
    /\ pc = "replay"
    /\ ValidWord(secret_word_str)
    /\ NoPlaceholder
    /\ wrong_guesses_count = MAX_WRONG_GUESSES - 1

-----------------------------------------------------------------------------
(* C17 *)

GuessedSet == {guessed_letters[k] : k \in 1..Len(guessed_letters)}

SecretLetters == {secret_word_chars[i] : i \in 1..Len(secret_word_chars)}

RevealedSet ==
    {hidden_word_display[i] : i \in 1..Len(hidden_word_display)} \ {UNDERSCORE}

\* C17: the wrong count is the number of guessed letters that are not in the
\* secret word, and the revealed chars are the guessed letters that are in it.
C17_CountsMatchGuessedLetters ==
    /\ wrong_guesses_count = Cardinality(GuessedSet \ SecretLetters)
    /\ RevealedSet = GuessedSet \cap SecretLetters

\* two wrong guesses, a revealed letter and a hidden one
C17_Witness ==
    /\ pc = "guess"
    /\ wrong_guesses_count >= 2
    /\ RevealedSet # {}
    /\ \E i \in 1..Len(hidden_word_display) : hidden_word_display[i] = UNDERSCORE

-----------------------------------------------------------------------------
(* C18 *)

\* C18: a round of a valid secret word with d distinct letters accepts at most
\* d + MAX_WRONG_GUESSES - 1 guesses, and never more than 26.
C18_AcceptedGuessesBounded ==
    (InRound /\ ValidWord(secret_word_str)) =>
        /\ Len(guessed_letters) <= Cardinality(SecretLetters) + MAX_WRONG_GUESSES - 1
        /\ Len(guessed_letters) <= 26

\* a round of a valid word that has accepted as many guesses as it can
C18_Witness ==
    /\ pc = "replay"
    /\ ValidWord(secret_word_str)
    /\ Len(guessed_letters) = Cardinality(SecretLetters) + MAX_WRONG_GUESSES - 1

-----------------------------------------------------------------------------
(* C19 *)

\* the letters that can be typed, in upper case
TypedLetters ==
    {c \in 65..90 : \E line \in GuessInputs : trim(line) \in {<<c>>, <<c + 32>>}}

\* a round waits for a guess and a letter not guessed yet can be typed
CanGuessNewLetter ==
    /\ pc = "guess"
    /\ \E c \in TypedLetters :
          \A k \in 1..Len(guessed_letters) : guessed_letters[k] # c

\* a step that accepts a guess: the line typed is a letter not guessed yet
NewLetterGuess == pc = "guess" /\ guessed_letters' # guessed_letters

\* the program, with a player who, while a round waits for a guess, eventually
\* types a letter not guessed yet: weak fairness of NewLetterGuess, that is
\* WF_vars(NewLetterGuess) with ENABLED <<NewLetterGuess>>_vars written as
\* the state predicate CanGuessNewLetter
FairSpec ==
    Spec /\ ([]<>(~CanGuessNewLetter) \/ []<><<NewLetterGuess>>_vars)

\* C19: with such a player a round of a valid secret word eventually is Won or
\* Lost; a rejected line does not end the round and costs no attempt.
C19_RoundTerminates ==
    /\ (pc = "guess" /\ ValidWord(secret_word_str)) ~> (Outcome \in {"Won", "Lost"})
    /\ [][(pc = "guess" /\ output' \in Rejections) =>
             /\ pc' = "guess"
             /\ wrong_guesses_count' = wrong_guesses_count
             /\ remaining_guesses' = remaining_guesses]_vars

\* a round of a valid word has ended after a line was rejected and guesses
\* were accepted: the last line typed was a letter not guessed yet
C19_Witness ==
    /\ pc = "replay"
    /\ ValidWord(secret_word_str)
    /\ Outcome \in {"Won", "Lost"}
    /\ output \in Acceptances
    /\ Len(guessed_letters) >= 2

====
